---- MODULE Spec2Model ----
(***************************************************************************)
(* BillTracker: the reminder sweep of server/routes.ts (registerRoutes'    *)
(* setInterval callback), the storage layer it calls, the bill and         *)
(* settings endpoints that run concurrently with it, and the client's      *)
(* urgency classifier getBillStatusColor.                                  *)
(*                                                                         *)
(* Time is counted in minutes since local midnight of day 0.  One step of  *)
(* a sweep is the code between two awaits: the awaited operation takes     *)
(* effect and the callback runs on to its next await.                      *)
(***************************************************************************)
EXTENDS Integers, Sequences, FiniteSets, TLC

\* ------------------------------------------------------------------ bounds
MaxEvents == 2     \* timer ticks plus API requests in one behaviour
MaxEventsTwoBills == 1    \* the same, when the table holds two bills

\* --------------------------------------------------------------- constants
MinutesPerDay == 24 * 60
Null == -1                        \* a NULL timestamp / integer column
InvalidDate == -2                 \* a Date without an instant (time value NaN)
DefaultSoundInterval == 120       \* bill.reminderSoundInterval || 120
RedMaxDays == 2                   \* diffDays <= 2
YellowMaxDays == 7                \* diffDays <= 7
YellowMinDays == 3                \* diffDays >= 3
YellowEmailDays == 2              \* daysSinceEmail >= 2

BillIds == {1}
Day(d) == d * MinutesPerDay

\* The instants at which the timer may fire.  They give elapsed times of 1,
\* 119 and 120 minutes, both sides of midnight, and one and two full days.
TickInstants ==
    {1, 2, 121, Day(1) - 1, Day(1) + 1, Day(2) + 1}

\* ------------------------------------------------------------ date helpers
startOfDay(t) == t - (t % MinutesPerDay)

isSameDay(a, b) == startOfDay(a) = startOfDay(b)

\* date-fns differenceInDays: the number of full days between the two
\* instants, truncated toward zero.
differenceInDays(later, earlier) ==
    IF later >= earlier
    THEN (later - earlier) \div MinutesPerDay
    ELSE -((earlier - later) \div MinutesPerDay)

\* ------------------------------------------------------------------ state
VARIABLES
    clock,          \* wall clock, minutes
    bills,          \* the bills table: id -> row
    settingsRows,   \* the settings table: sequence of rows
    sweeps,         \* one record per timer tick: the async callback's frame
    ticks,          \* timer ticks fired so far
    requests,       \* API requests served so far
    log,            \* every send and every timestamp write the sweeps made
    classified,     \* last classification made by the classifier probe
    transport,      \* how the mail client and the Telegram API behave
    putSettings,    \* the PUT /api/settings request that is being served
    testReply,  \* the answer to the last manual test request
    audio,  \* the browser: the alert audio of CalendarView and what its effect last saw
    projection   \* the browser: one run of the recurring-bill projection loop

vars == <<clock, bills, settingsRows, sweeps, ticks, requests, log, classified,
          transport, putSettings, testReply, audio, projection>>

SweepIds == 1..MaxEvents

\* the number of ticks and requests a behaviour may hold
EventBudget ==
    IF Cardinality(DOMAIN bills) > 1 THEN MaxEventsTwoBills ELSE MaxEvents

\* settings table defaults: is_email_enabled TRUE, is_telegram_enabled FALSE,
\* the text columns NULL (modelled as the empty string, equally falsy).
DefaultSettings ==
    [userEmail |-> "", isEmailEnabled |-> TRUE,
     telegramToken |-> "", telegramChatId |-> "", isTelegramEnabled |-> FALSE]

NoSettings ==
    [userEmail |-> "", isEmailEnabled |-> FALSE,
     telegramToken |-> "", telegramChatId |-> "", isTelegramEnabled |-> FALSE]

\* no manual test request has been answered yet
NoReply == [route |-> "none", status |-> 0, outcome |-> "none", cfg |-> NoSettings]

\* the page is not open: no audio element, nothing saved by the user yet
NoAudio ==
    [mounted |-> FALSE, playing |-> 0, deps |-> <<>>,
     wanted |-> [isSoundEnabled |-> FALSE, isMuted |-> FALSE, alertSoundUrl |-> ""]]

\* no projection has been started
NotProjected ==
    [pc |-> "idle", view |-> "none", recurring |-> FALSE, interval |-> "none",
     due |-> [m |-> 0, d |-> 1],
     date |-> [m |-> 0, d |-> 1], next |-> [m |-> 0, d |-> 1],
     limit |-> [m |-> 0, d |-> 1], iters |-> 0, found |-> "none"]

IdleSweep ==
    [pc |-> "idle", now |-> Null, unpaid |-> <<>>, idx |-> 0,
     settings |-> NoSettings, shouldEmail |-> FALSE, alone |-> FALSE]

\* the callback has returned; the frame keeps the settings it read last
DoneSweep(sw) == [IdleSweep EXCEPT !.pc = "done", !.settings = sw.settings]

\* an exception left the callback: its promise is rejected, nothing more runs
AbortedSweep(sw) == [IdleSweep EXCEPT !.pc = "aborted", !.settings = sw.settings]

\* the values of pc at which no code of the callback is left to run
Returned == {"idle", "done", "aborted"}

\* Partial<...> applied by UPDATE ... SET: the named columns change.
Merge(row, updates) ==
    [f \in DOMAIN row |-> IF f \in DOMAIN updates THEN updates[f] ELSE row[f]]

\* ---------------------------------------------------------------- storage
\* DatabaseStorage.getUnpaidBills: the rows with status = 'unpaid'.
RECURSIVE RowsFrom(_, _)
RowsFrom(ids, table) ==
    IF ids = {} THEN <<>>
    ELSE LET id == CHOOSE i \in ids : \A j \in ids : i <= j
         IN  <<[id |-> id,
                dueDate |-> table[id].dueDate,
                reminderSoundInterval |-> table[id].reminderSoundInterval,
                lastEmailRemindedAt |-> table[id].lastEmailRemindedAt,
                lastRemindedAt |-> table[id].lastRemindedAt]>>
             \o RowsFrom(ids \ {id}, table)

getUnpaidBills(table) ==
    RowsFrom({id \in DOMAIN table : table[id].status = "unpaid"}, table)

\* DatabaseStorage.updateLastReminded: update(bills).set({ lastRemindedAt:
\* new Date() }).where(eq(bills.id, id)), t being the reading of the clock.
\* (faulty variant: the where clause left out)
MutUpdateLastRemindedAllRows(table, id, t) ==
    [i \in DOMAIN table |-> [table[i] EXCEPT !.lastRemindedAt = t]]
updateLastReminded(table, id, t) ==
    [table EXCEPT ![id].lastRemindedAt = t]

\* ------------------------------------------------------------ the channels
\* How the mail side behaves: "ok" (client configured, provider accepts),
\* "noClient" (RESEND_API_KEY unset, resend is null), "error" (the provider
\* answers { error }), "throw" (resend.emails.send rejects).
MailModes == {"ok", "noClient", "error", "throw"}
\* How the Telegram API behaves: "ok", "notOk" (response.ok false), "throw"
\* (fetch rejects).
ChatModes == {"ok", "notOk", "throw"}

\* sendReminderEmail: what became of the call.  "threw" would be an exception
\* reaching the caller; every path of the function returns.
sendReminderEmail(mail) ==
    IF mail = "noClient" THEN "skipped"
    ELSE IF mail = "ok" THEN "sent"
    ELSE IF mail = "error" THEN "error"
    ELSE "caught"

\* sendTelegramMessage: what became of the call.
\* (faulty variant: no try / catch around the fetch)
MutSendTelegramMessageNoCatch(chat) ==
    IF chat = "ok" THEN "sent"
    ELSE IF chat = "notOk" THEN "error"
    ELSE "threw"
sendTelegramMessage(chat) ==
    IF chat = "ok" THEN "sent"
    ELSE IF chat = "notOk" THEN "error"
    ELSE "caught"

\* the client reads settings?.isSoundEnabled; the settings table has no such
\* column, so the property is undefined (falsy) on every row the server returns
isSoundEnabled(row) ==
    IF "isSoundEnabled" \in DOMAIN row THEN row.isSoundEnabled ELSE FALSE

\* ------------------------------------------------------- sweep decisions
\* const diffDays = differenceInDays(startOfDay(dueDate), startOfDay(now))
\* (faulty variant: the two startOfDay calls left out)
MutDiffDaysNoStartOfDay(dueDate, now) == differenceInDays(dueDate, now)
diffDays(dueDate, now) == differenceInDays(startOfDay(dueDate), startOfDay(now))

\* The branch of the sweep's if / else if that a bill enters.
\* (faulty variant: the Yellow branch without its upper limit of 7 days)
MutUrgencyNoUpperBound(dueDate, now) ==
    IF dueDate = InvalidDate THEN "NONE"
    ELSE IF diffDays(dueDate, now) <= RedMaxDays THEN "RED"
    ELSE IF diffDays(dueDate, now) >= YellowMinDays THEN "YELLOW"
    ELSE "NONE"

\* A Date that holds no instant (Invalid Date): differenceInDays of it is
\* NaN and every comparison with NaN is false, so neither branch is entered.
\* (faulty variant: the Red test written as !(diffDays > 2), true of NaN)
MutUrgencyNaNIsRed(dueDate, now) ==
    IF dueDate = InvalidDate THEN "RED"
    ELSE IF diffDays(dueDate, now) <= RedMaxDays THEN "RED"
    ELSE IF diffDays(dueDate, now) <= YellowMaxDays
            /\ diffDays(dueDate, now) >= YellowMinDays THEN "YELLOW"
    ELSE "NONE"

Urgency(dueDate, now) ==
    IF dueDate = InvalidDate THEN "NONE"
    ELSE IF diffDays(dueDate, now) <= RedMaxDays THEN "RED"
    ELSE IF diffDays(dueDate, now) <= YellowMaxDays
            /\ diffDays(dueDate, now) >= YellowMinDays THEN "YELLOW"
    ELSE "NONE"

\* settings.isEmailEnabled && settings.userEmail
\* (faulty variant: the enablement flag not consulted)
MutEmailConfiguredNoFlag(s) == s.userEmail # ""
EmailConfigured(s) == s.isEmailEnabled /\ s.userEmail # ""

\* settings.isTelegramEnabled && settings.telegramToken && settings.telegramChatId
TelegramConfigured(s) ==
    s.isTelegramEnabled /\ s.telegramToken # "" /\ s.telegramChatId # ""

\* const shouldEmail = settings.isEmailEnabled && settings.userEmail &&
\*                     (!lastEmail || !isSameDay(lastEmail, now))
\* (faulty variant: a rolling 24 hours instead of the calendar day)
MutRedEmailRolling24h(s, lastEmail, now) ==
    EmailConfigured(s)
    /\ (lastEmail = Null \/ now - lastEmail >= MinutesPerDay)
RedShouldEmail(s, lastEmail, now) ==
    EmailConfigured(s) /\ (lastEmail = Null \/ ~isSameDay(lastEmail, now))

\* const soundInterval = bill.reminderSoundInterval || 120
soundInterval(bill) ==
    IF bill.reminderSoundInterval = Null \/ bill.reminderSoundInterval = 0
    THEN DefaultSoundInterval
    ELSE bill.reminderSoundInterval

\* minsSinceSound >= soundInterval, with minsSinceSound = Infinity when the
\* bill has no lastRemindedAt
\* (faulty variant: > instead of >=)
MutSoundStrictlyGreater(bill, now) ==
    \/ bill.lastRemindedAt = Null
    \/ now - bill.lastRemindedAt > soundInterval(bill)
SoundDue(bill, now) ==
    \/ bill.lastRemindedAt = Null
    \/ now - bill.lastRemindedAt >= soundInterval(bill)

\* daysSinceEmail >= 2 && settings.isEmailEnabled && settings.userEmail
\* (faulty variant: calendar days instead of full days)
MutYellowEmailCalendarDays(s, lastEmail, now) ==
    /\ (lastEmail = Null
        \/ (startOfDay(now) - startOfDay(lastEmail)) \div MinutesPerDay
              >= YellowEmailDays)
    /\ EmailConfigured(s)
YellowShouldEmail(s, lastEmail, now) ==
    /\ (lastEmail = Null \/ differenceInDays(now, lastEmail) >= YellowEmailDays)
    /\ EmailConfigured(s)

\* Telegram for Yellow: configured && (lastEmail ? diff >= 2 : true)
YellowShouldTelegram(s, lastEmail, now) ==
    /\ TelegramConfigured(s)
    /\ (lastEmail = Null \/ differenceInDays(now, lastEmail) >= YellowEmailDays)

\* --------------------------------------------------- the sweep's control
CurrentBill(sw) == sw.unpaid[sw.idx]

\* the for loop moves to the next bill, or the callback returns
NextBill(sw) ==
    IF sw.idx + 1 > Len(sw.unpaid) THEN DoneSweep(sw)
    ELSE [sw EXCEPT !.idx = @ + 1, !.pc = "settings", !.shouldEmail = FALSE]

\* lines 247-254: the sound reminder of the Red branch
ToSound(sw) ==
    IF SoundDue(CurrentBill(sw), sw.now)
    THEN [sw EXCEPT !.pc = "sound"]
    ELSE NextBill(sw)

\* lines 242-245: the Telegram reminder of the Red branch
\* (faulty variant: shouldEmail not part of the condition)
MutToRedTelegramNoEmailGate(sw) ==
    IF TelegramConfigured(sw.settings)
    THEN [sw EXCEPT !.pc = "redTelegram"]
    ELSE ToSound(sw)
ToRedTelegram(sw) ==
    IF TelegramConfigured(sw.settings) /\ sw.shouldEmail
    THEN [sw EXCEPT !.pc = "redTelegram"]
    ELSE ToSound(sw)

\* lines 266-269: the Telegram reminder of the Yellow branch
ToYellowTelegram(sw) ==
    IF YellowShouldTelegram(sw.settings, CurrentBill(sw).lastEmailRemindedAt, sw.now)
    THEN [sw EXCEPT !.pc = "yellowTelegram"]
    ELSE NextBill(sw)

\* lines 232-270 up to the first await after getSettings resolved with s
Branch(sw0, s) ==
    LET bill == CurrentBill(sw0)
        sw == [sw0 EXCEPT !.settings = s]
    IN  IF Urgency(bill.dueDate, sw.now) = "RED"
        THEN IF RedShouldEmail(s, bill.lastEmailRemindedAt, sw.now)
             THEN [sw EXCEPT !.pc = "redEmail", !.shouldEmail = TRUE]
             ELSE ToRedTelegram([sw EXCEPT !.shouldEmail = FALSE])
        ELSE IF Urgency(bill.dueDate, sw.now) = "YELLOW"
        THEN IF YellowShouldEmail(s, bill.lastEmailRemindedAt, sw.now)
             THEN [sw EXCEPT !.pc = "yellowEmail"]
             ELSE ToYellowTelegram(sw)
        ELSE NextBill(sw)

\* What the log keeps of one send ("email", "chat") or one timestamp write
\* ("stampEmail", "stampSound", of val over stored) that sweep s makes for its
\* current bill: the sweep's view of the bill, the settings it read, the day,
\* the bill's stored status and, for a send, what became of the call.
Event(kind, urgency, s, stored, val) ==
    [kind |-> kind, urgency |-> urgency, bill |-> CurrentBill(sweeps[s]).id,
     sweep |-> s, day |-> clock \div MinutesPerDay, now |-> sweeps[s].now,
     lastEmail |-> CurrentBill(sweeps[s]).lastEmailRemindedAt,
     lastSound |-> CurrentBill(sweeps[s]).lastRemindedAt,
     interval |-> CurrentBill(sweeps[s]).reminderSoundInterval,
     stored |-> stored, val |-> val,
     outcome |-> IF kind = "email" THEN sendReminderEmail(transport.mail)
                 ELSE IF kind = "chat" THEN sendTelegramMessage(transport.chat)
                 ELSE "none",
     status |-> bills[CurrentBill(sweeps[s]).id].status,
     cfg |-> sweeps[s].settings]

\* ----------------------------------------------------------------- Init
\* The bills table when the server starts: a bill that is Red on days 0..2
\* (with no sound interval, with the column's default of 120, with 0), one
\* that is Yellow on days 0..2, one that is Green on days 0 and 1 and Yellow
\* on day 2.
InitBills ==
    {[dueDate |-> Day(2) + 600, interval |-> Null],
     [dueDate |-> Day(2) + 600, interval |-> DefaultSoundInterval],
     [dueDate |-> Day(2) + 600, interval |-> 0],
     [dueDate |-> Day(5) + 30, interval |-> Null],
     [dueDate |-> Day(9) + 1439, interval |-> DefaultSoundInterval]}

InitSettingsRows ==
    {<<>>,
     <<[DefaultSettings EXCEPT !.userEmail = "user@example.com"]>>,
     <<[DefaultSettings EXCEPT !.userEmail = "user@example.com",
                               !.isTelegramEnabled = TRUE,
                               !.telegramToken = "token",
                               !.telegramChatId = "chat"]>>,
     <<[DefaultSettings EXCEPT !.isEmailEnabled = FALSE,
                               !.userEmail = "user@example.com",
                               !.isTelegramEnabled = TRUE,
                               !.telegramToken = "token",
                               !.telegramChatId = "chat"]>>}

NewBill(status, due, interval) ==
    [status |-> status, dueDate |-> due, reminderSoundInterval |-> interval,
     lastEmailRemindedAt |-> Null, lastRemindedAt |-> Null]

NotClassified ==
    [status |-> "none", dueDate |-> 0, today |-> 0, referenceDate |-> 0,
     color |-> "none", branch |-> "none"]

Init ==
    /\ clock = 0
    /\ \E b \in InitBills, st \in {"unpaid", "paid"} :
          bills = [id \in BillIds |-> NewBill(st, b.dueDate, b.interval)]
    /\ settingsRows \in InitSettingsRows
    /\ sweeps = [s \in SweepIds |-> IdleSweep]
    /\ ticks = 0
    /\ requests = 0
    /\ log = {}
    /\ classified = NotClassified
    /\ transport = [mail |-> "ok", chat |-> "ok"]
    /\ putSettings = <<>>
    /\ testReply = NoReply
    /\ audio = NoAudio
    /\ projection = NotProjected

\* --------------------------------------------------------------- actions
\* setInterval fires: the callback starts and awaits storage.getUnpaidBills().
\* Nothing in the code keeps a tick from firing while an earlier callback is
\* still awaiting; the frame notes (alone) whether every earlier one had
\* returned.
Tick(t) ==
    /\ ticks + requests < EventBudget
    /\ t > clock
    /\ clock' = t
    /\ ticks' = ticks + 1
    /\ sweeps' = [sweeps EXCEPT ![ticks + 1] =
          [IdleSweep EXCEPT !.pc = "list",
                            !.alone = \A o \in SweepIds :
                                         sweeps[o].pc \in Returned]]
    /\ UNCHANGED <<bills, settingsRows, requests, log, classified, transport,
                   putSettings,
                   testReply,
                   audio,
                   projection>>

\* getUnpaidBills resolves; now = new Date(); the loop reaches getSettings.
List(s) ==
    /\ sweeps[s].pc = "list"
    /\ LET unpaid == getUnpaidBills(bills)
       IN  sweeps' = [sweeps EXCEPT ![s] =
             IF unpaid = <<>> THEN DoneSweep(@)
             ELSE [@ EXCEPT !.pc = "settings", !.now = clock,
                            !.unpaid = unpaid, !.idx = 1]]
    /\ UNCHANGED <<clock, bills, settingsRows, ticks, requests, log, classified,
                   transport, putSettings,
                   testReply,
                   audio,
                   projection>>

\* storage.getSettings: const [row] = select; a row was found.
GetSettings(s) ==
    /\ sweeps[s].pc = "settings"
    /\ settingsRows # <<>>
    /\ \E i \in DOMAIN settingsRows :
          sweeps' = [sweeps EXCEPT ![s] = Branch(@, settingsRows[i])]
    /\ UNCHANGED <<clock, bills, settingsRows, ticks, requests, log, classified,
                   transport, putSettings,
                   testReply,
                   audio,
                   projection>>

\* storage.getSettings: the select found no row; the insert is awaited next.
GetSettingsEmpty(s) ==
    /\ sweeps[s].pc = "settings"
    /\ settingsRows = <<>>
    /\ sweeps' = [sweeps EXCEPT ![s].pc = "insertSettings"]
    /\ UNCHANGED <<clock, bills, settingsRows, ticks, requests, log, classified,
                   transport, putSettings,
                   testReply,
                   audio,
                   projection>>

\* storage.getSettings: insert(settings).values({}).returning()
InsertSettings(s) ==
    /\ sweeps[s].pc = "insertSettings"
    /\ settingsRows' = Append(settingsRows, DefaultSettings)
    /\ sweeps' = [sweeps EXCEPT ![s] = Branch(@, DefaultSettings)]
    /\ UNCHANGED <<clock, bills, ticks, requests, log, classified, transport,
                   putSettings,
                   testReply,
                   audio,
                   projection>>

\* await sendReminderEmail(bill, 'RED', ...) settles; db.update is awaited.
RedEmailSend(s) ==
    /\ sweeps[s].pc = "redEmail"
    /\ log' = log \cup {Event("email", "RED", s, Null, Null)}
    /\ sweeps' = [sweeps EXCEPT ![s] =
          IF sendReminderEmail(transport.mail) = "threw" THEN AbortedSweep(@)
          ELSE [@ EXCEPT !.pc = "redWrite"]]
    /\ UNCHANGED <<clock, bills, settingsRows, ticks, requests, classified,
                   transport, putSettings,
                   testReply,
                   audio,
                   projection>>

\* db.update(bills).set({ lastEmailRemindedAt: now }).where(id) takes effect.
RedEmailWrite(s) ==
    /\ sweeps[s].pc = "redWrite"
    /\ LET id == CurrentBill(sweeps[s]).id
       IN  /\ bills' = [bills EXCEPT ![id].lastEmailRemindedAt = sweeps[s].now]
           /\ log' = log \cup {Event("stampEmail", "RED", s,
                                     bills[id].lastEmailRemindedAt, sweeps[s].now)}
    /\ sweeps' = [sweeps EXCEPT ![s] = ToRedTelegram(@)]
    /\ UNCHANGED <<clock, settingsRows, ticks, requests, classified, transport,
                   putSettings,
                   testReply,
                   audio,
                   projection>>

\* await sendTelegramMessage(bill, 'RED', ...) settles.
RedTelegramSend(s) ==
    /\ sweeps[s].pc = "redTelegram"
    /\ log' = log \cup {Event("chat", "RED", s, Null, Null)}
    /\ sweeps' = [sweeps EXCEPT ![s] =
          IF sendTelegramMessage(transport.chat) = "threw" THEN AbortedSweep(@)
          ELSE ToSound(@)]
    /\ UNCHANGED <<clock, bills, settingsRows, ticks, requests, classified,
                   transport, putSettings,
                   testReply,
                   audio,
                   projection>>

\* storage.updateLastReminded(bill.id): set({ lastRemindedAt: new Date() })
SoundWrite(s) ==
    /\ sweeps[s].pc = "sound"
    /\ LET id == CurrentBill(sweeps[s]).id
       IN  /\ bills' = updateLastReminded(bills, id, clock)
           /\ log' = log \cup {Event("stampSound", "RED", s,
                                     bills[id].lastRemindedAt, clock)}
    /\ sweeps' = [sweeps EXCEPT ![s] = NextBill(@)]
    /\ UNCHANGED <<clock, settingsRows, ticks, requests, classified, transport,
                   putSettings,
                   testReply,
                   audio,
                   projection>>

\* await sendReminderEmail(bill, 'YELLOW', ...) settles; db.update is awaited.
YellowEmailSend(s) ==
    /\ sweeps[s].pc = "yellowEmail"
    /\ log' = log \cup {Event("email", "YELLOW", s, Null, Null)}
    /\ sweeps' = [sweeps EXCEPT ![s] =
          IF sendReminderEmail(transport.mail) = "threw" THEN AbortedSweep(@)
          ELSE [@ EXCEPT !.pc = "yellowWrite"]]
    /\ UNCHANGED <<clock, bills, settingsRows, ticks, requests, classified,
                   transport, putSettings,
                   testReply,
                   audio,
                   projection>>

YellowEmailWrite(s) ==
    /\ sweeps[s].pc = "yellowWrite"
    /\ LET id == CurrentBill(sweeps[s]).id
       IN  /\ bills' = [bills EXCEPT ![id].lastEmailRemindedAt = sweeps[s].now]
           /\ log' = log \cup {Event("stampEmail", "YELLOW", s,
                                     bills[id].lastEmailRemindedAt, sweeps[s].now)}
    /\ sweeps' = [sweeps EXCEPT ![s] = ToYellowTelegram(@)]
    /\ UNCHANGED <<clock, settingsRows, ticks, requests, classified, transport,
                   putSettings,
                   testReply,
                   audio,
                   projection>>

YellowTelegramSend(s) ==
    /\ sweeps[s].pc = "yellowTelegram"
    /\ log' = log \cup {Event("chat", "YELLOW", s, Null, Null)}
    /\ sweeps' = [sweeps EXCEPT ![s] =
          IF sendTelegramMessage(transport.chat) = "threw" THEN AbortedSweep(@)
          ELSE NextBill(@)]
    /\ UNCHANGED <<clock, bills, settingsRows, ticks, requests, classified,
                   transport, putSettings,
                   testReply,
                   audio,
                   projection>>

\* PUT /api/bills/:id -> storage.updateBill(id, input)
BillUpdates == {[status |-> "paid"], [status |-> "unpaid"]}

UpdateBill(id, updates) ==
    /\ ticks + requests < EventBudget
    /\ requests' = requests + 1
    /\ bills' = [bills EXCEPT ![id] = Merge(@, updates)]
    /\ UNCHANGED <<clock, settingsRows, sweeps, ticks, log, classified,
                   transport, putSettings,
                   testReply,
                   audio,
                   projection>>

\* PUT /api/settings -> storage.updateSettings(req.body)
SettingsUpdates ==
    {[userEmail |-> "user@example.com"],
     [isEmailEnabled |-> FALSE],
     [isTelegramEnabled |-> TRUE, telegramToken |-> "token", telegramChatId |-> "chat"],
     [isTelegramEnabled |-> TRUE, telegramToken |-> "token"],
     [isTelegramEnabled |-> FALSE]}

\* updateSettings when this.getSettings() finds a row: the row it returns is
\* the one updated (where id = existing.id).  The select changes nothing and
\* no row is ever deleted, so the select and the update are one step.
UpdateSettings(updates) ==
    /\ ticks + requests < EventBudget
    /\ settingsRows # <<>>
    /\ requests' = requests + 1
    /\ \E i \in DOMAIN settingsRows :
          settingsRows' = [settingsRows EXCEPT ![i] = Merge(@, updates)]
    /\ UNCHANGED <<clock, bills, sweeps, ticks, log, classified, transport,
                   putSettings,
                   testReply,
                   audio,
                   projection>>

\* updateSettings when the select of this.getSettings() finds no row: the
\* insert is awaited next.  One such request is in flight at a time.
UpdateSettingsEmpty(updates) ==
    /\ ticks + requests < EventBudget
    /\ settingsRows = <<>>
    /\ putSettings = <<>>
    /\ requests' = requests + 1
    /\ putSettings' = <<[pc |-> "insert", updates |-> updates, row |-> 0]>>
    /\ UNCHANGED <<clock, bills, settingsRows, sweeps, ticks, log, classified,
                   transport,
                   testReply,
                   audio,
                   projection>>

\* getSettings of the request: insert(settings).values({}).returning()
UpdateSettingsInsert ==
    /\ putSettings # <<>>
    /\ putSettings[1].pc = "insert"
    /\ settingsRows' = Append(settingsRows, DefaultSettings)
    /\ putSettings' = <<[putSettings[1] EXCEPT !.pc = "update",
                                               !.row = Len(settingsRows) + 1]>>
    /\ UNCHANGED <<clock, bills, sweeps, ticks, requests, log, classified,
                   transport,
                   testReply,
                   audio,
                   projection>>

\* update(settings).set(updates).where(eq(settings.id, existing.id))
UpdateSettingsWrite ==
    /\ putSettings # <<>>
    /\ putSettings[1].pc = "update"
    /\ settingsRows' = [settingsRows EXCEPT ![putSettings[1].row] =
                           Merge(@, putSettings[1].updates)]
    /\ putSettings' = <<>>
    /\ UNCHANGED <<clock, bills, sweeps, ticks, requests, log, classified,
                   transport,
                   testReply,
                   audio,
                   projection>>

Next ==
    \/ \E t \in TickInstants : Tick(t)
    \/ \E s \in SweepIds : List(s)
    \/ \E s \in SweepIds : GetSettings(s)
    \/ \E s \in SweepIds : GetSettingsEmpty(s)
    \/ \E s \in SweepIds : InsertSettings(s)
    \/ \E s \in SweepIds : RedEmailSend(s)
    \/ \E s \in SweepIds : RedEmailWrite(s)
    \/ \E s \in SweepIds : RedTelegramSend(s)
    \/ \E s \in SweepIds : SoundWrite(s)
    \/ \E s \in SweepIds : YellowEmailSend(s)
    \/ \E s \in SweepIds : YellowEmailWrite(s)
    \/ \E s \in SweepIds : YellowTelegramSend(s)
    \/ \E id \in DOMAIN bills, u \in BillUpdates : UpdateBill(id, u)
    \/ \E u \in SettingsUpdates : UpdateSettings(u)
    \/ \E u \in SettingsUpdates : UpdateSettingsEmpty(u)
    \/ UpdateSettingsInsert
    \/ UpdateSettingsWrite

Spec == Init /\ [][Next]_vars

\* ------------------------------------------------------ two bills, failures
\* A table of two unpaid bills, the first Red and the second Yellow on days
\* 0..2, every behaviour of the mail side and of the Telegram API, and the
\* settings table empty or with both channels configured.
TwoBillIds == {1, 2}

InitTwoBills ==
    /\ clock = 0
    /\ bills = [id \in TwoBillIds |->
                  IF id = 1 THEN NewBill("unpaid", Day(2) + 600, Null)
                  ELSE NewBill("unpaid", Day(5) + 30, Null)]
    /\ settingsRows \in
          {<<>>,
           <<[DefaultSettings EXCEPT !.userEmail = "user@example.com",
                                     !.isTelegramEnabled = TRUE,
                                     !.telegramToken = "token",
                                     !.telegramChatId = "chat"]>>}
    /\ sweeps = [s \in SweepIds |-> IdleSweep]
    /\ ticks = 0
    /\ requests = 0
    /\ log = {}
    /\ classified = NotClassified
    /\ transport \in [mail : MailModes, chat : ChatModes]
    /\ putSettings = <<>>
    /\ testReply = NoReply
    /\ audio = NoAudio
    /\ projection = NotProjected

SpecTwoBills == InitTwoBills /\ [][Next]_vars

\* One step of the callback that tick s started.  Every await of the callback
\* settles (the sends return or are caught, the queries answer), so a callback
\* that can take a step eventually takes it.
SweepStep(s) ==
    \/ List(s) \/ GetSettings(s) \/ GetSettingsEmpty(s) \/ InsertSettings(s)
    \/ RedEmailSend(s) \/ RedEmailWrite(s) \/ RedTelegramSend(s) \/ SoundWrite(s)
    \/ YellowEmailSend(s) \/ YellowEmailWrite(s) \/ YellowTelegramSend(s)

FairSpecTwoBills ==
    SpecTwoBills /\ \A s \in SweepIds : WF_vars(SweepStep(s))

\* ------------------------------------------------------- one bill, failures
\* One unpaid bill, Red or Yellow on days 0..2, a mail side that fails in
\* each of its ways, and the settings table empty or with both channels
\* configured.
InitFailures ==
    /\ clock = 0
    /\ \E due \in {Day(2) + 600, Day(5) + 30} :
          bills = [id \in BillIds |-> NewBill("unpaid", due, Null)]
    /\ settingsRows \in
          {<<>>,
           <<[DefaultSettings EXCEPT !.userEmail = "user@example.com",
                                     !.isTelegramEnabled = TRUE,
                                     !.telegramToken = "token",
                                     !.telegramChatId = "chat"]>>}
    /\ sweeps = [s \in SweepIds |-> IdleSweep]
    /\ ticks = 0
    /\ requests = 0
    /\ log = {}
    /\ classified = NotClassified
    /\ transport \in [mail : MailModes \ {"ok"}, chat : {"ok"}]
    /\ putSettings = <<>>
    /\ testReply = NoReply
    /\ audio = NoAudio
    /\ projection = NotProjected

SpecFailures == InitFailures /\ [][Next]_vars

\* ------------------------------------------------- the client's classifier
\* CalendarView.tsx isPaidStatus
\* (faulty variant: compares with "Paid")
MutIsPaidStatusCapitalised(bill) == bill.status = "Paid"
isPaidStatus(bill) == bill.status = "paid"

\* CalendarView.tsx getBillStatusColor(bill, referenceDate).  The function
\* reads the clock itself (const today = new Date()), so the reading `today`
\* is an input here; referenceDate is accepted and not used.
\* (faulty variant: the two dates not set to 00:00 before the difference)
MutGetBillStatusColorNoMidnight(bill, referenceDate, today) ==
    IF isPaidStatus(bill) THEN "gray"
    ELSE LET days == differenceInDays(bill.dueDate, today)
         IN  IF days <= RedMaxDays THEN "red"
             ELSE IF days <= YellowMaxDays THEN "yellow"
             ELSE "green"
getBillStatusColor(bill, referenceDate, today) ==
    IF isPaidStatus(bill) THEN "gray"
    ELSE LET days == differenceInDays(startOfDay(bill.dueDate), startOfDay(today))
         IN  IF days <= RedMaxDays THEN "red"
             ELSE IF days <= YellowMaxDays THEN "yellow"
             ELSE "green"

MaxDay == 11       \* due dates of the classifier probe fall on days 0..MaxDay
TimesOfDay == {0, 1, 719, MinutesPerDay - 1}
ProbeDueDates == {Day(d) + m : d \in 0..MaxDay, m \in TimesOfDay}
ProbeNows == {Day(d) + m : d \in 1..2, m \in TimesOfDay}

\* One classification of a bill by the client (color) and, for a bill the
\* sweep lists, by the sweep's branches (branch), both at the instant today.
Classify(status, dueDate, today, referenceDate) ==
    /\ classified = NotClassified
    /\ classified' =
          [status |-> status, dueDate |-> dueDate, today |-> today,
           referenceDate |-> referenceDate,
           color |-> getBillStatusColor([status |-> status, dueDate |-> dueDate],
                                        referenceDate, today),
           branch |-> IF status = "unpaid" THEN Urgency(dueDate, today)
                      ELSE "none"]
    /\ UNCHANGED <<clock, bills, settingsRows, sweeps, ticks, requests, log,
                   transport, putSettings,
                   testReply,
                   audio,
                   projection>>

NextClassify ==
    \E status \in {"unpaid", "paid"}, dueDate \in ProbeDueDates,
       today \in ProbeNows, referenceDate \in ProbeNows :
        Classify(status, dueDate, today, referenceDate)

\* The classifier reads no table: the probe starts from an empty database.
InitClassify ==
    /\ clock = 0
    /\ bills = [id \in BillIds |-> NewBill("paid", Day(2) + 600, Null)]
    /\ settingsRows = <<>>
    /\ sweeps = [s \in SweepIds |-> IdleSweep]
    /\ ticks = 0
    /\ requests = 0
    /\ log = {}
    /\ classified = NotClassified
    /\ transport = [mail |-> "ok", chat |-> "ok"]
    /\ putSettings = <<>>
    /\ testReply = NoReply
    /\ audio = NoAudio
    /\ projection = NotProjected

SpecClassify == InitClassify /\ [][NextClassify]_vars

\* ================================================================ claims
CalDay(t) == t \div MinutesPerDay
Of(kind) == {e \in log : e.kind = kind}
\* the entries of one kind that sweep s logged for bill id
InSweep(kind, s, id) == {e \in Of(kind) : e.sweep = s /\ e.bill = id}
InProgress == {s \in SweepIds : sweeps[s].pc \notin Returned}

\* In this step sweep s gets its settings for the current bill and takes the
\* branches of lines 233-270 up to its next await (or to the end of the bill).
Decides(s) ==
    /\ sweeps[s].pc \in {"settings", "insertSettings"}
    /\ sweeps'[s] # sweeps[s]
    /\ sweeps'[s].pc # "insertSettings"

\* In this step sweep s reaches the sound check of its current Red bill
\* (lines 247-254): it goes on to the lastRemindedAt write or leaves the bill.
ReachesSoundCheck(s) ==
    /\ sweeps[s].pc \in {"settings", "insertSettings", "redWrite", "redTelegram"}
    /\ Urgency(CurrentBill(sweeps[s]).dueDate, sweeps[s].now) = "RED"
    /\ \/ sweeps'[s].pc \in {"sound", "done"}
       \/ sweeps'[s].idx > sweeps[s].idx

\* C1 (as claimed): at most one Red email is sent for a bill on any one
\* calendar day, whatever the timing of the ticks.
C1_OneRedEmailPerDay ==
    \A e1, e2 \in Of("email") :
        (e1.urgency = "RED" /\ e2.urgency = "RED" /\ e1.bill = e2.bill
         /\ e1.day = e2.day) => e1 = e2

\* C2 (as claimed): the sweep is not reentrant: at no moment are two sweep
\* bodies in progress at once.
C2_NotReentrant == Cardinality(InProgress) <= 1

\* C3 (as claimed): a Yellow chat message for a bill is never sent less than
\* 2 days after the previous one: not on the same day and not on the next.
\* Stated for the sweeps that began after every earlier sweep had returned.
C3_YellowChatTwoDayGate ==
    [][\A s \in SweepIds :
          (YellowTelegramSend(s) /\ sweeps[s].alone)
          => \A e \in Of("chat") :
                (e.urgency = "YELLOW" /\ e.bill = CurrentBill(sweeps[s]).id
                 /\ e.sweep < s)
                => CalDay(clock) - e.day >= YellowEmailDays]_vars

\* C4: no email is sent by a sweep whose settings have isEmailEnabled off or
\* no userEmail, and no chat message by a sweep whose settings have
\* isTelegramEnabled off or lack the token or the chat id; the settings are
\* those the sweep read for that bill.
C4_DisabledChannelNeverFires ==
    /\ \A e \in Of("email") : e.cfg.isEmailEnabled /\ e.cfg.userEmail # ""
    /\ \A e \in Of("chat") :
          /\ e.cfg.isTelegramEnabled
          /\ e.cfg.telegramToken # ""
          /\ e.cfg.telegramChatId # ""

\* C4 witness: a sweep has taken a Red bill that never had an email past the
\* email and chat branches, with an address set, the chat channel configured
\* and isEmailEnabled off, and has sent nothing for it.
C4_Witness ==
    \E s \in SweepIds :
        /\ sweeps[s].pc = "sound"
        /\ CurrentBill(sweeps[s]).lastEmailRemindedAt = Null
        /\ ~sweeps[s].settings.isEmailEnabled
        /\ sweeps[s].settings.userEmail # ""
        /\ TelegramConfigured(sweeps[s].settings)
        /\ InSweep("email", s, CurrentBill(sweeps[s]).id) = {}
        /\ InSweep("chat", s, CurrentBill(sweeps[s]).id) = {}

\* C5 (as claimed): no email, chat message or timestamp write is performed
\* for a bill while its stored status is paid.
C5_OnlyUnpaidBills == \A e \in log : e.status = "unpaid"

\* C6 (as claimed): every timestamp write of a sweep stores a value greater
\* than or equal to the value stored before it.
C6_TimestampsMoveForward ==
    \A e \in Of("stampEmail") \cup Of("stampSound") :
        e.stored # Null => e.val >= e.stored

\* C7: an unpaid bill is Red when the calendar-day difference between its
\* due date and now is <= 2, Yellow when it is 3..7, Green when it is > 7,
\* for the client's classifier and for the sweep's branches alike; the times
\* of day do not matter.
C7_Tiers ==
    classified.status = "unpaid" =>
        LET days == CalDay(classified.dueDate) - CalDay(classified.today)
        IN  /\ days <= 2 =>
                classified.color = "red" /\ classified.branch = "RED"
            /\ (3 <= days /\ days <= 7) =>
                classified.color = "yellow" /\ classified.branch = "YELLOW"
            /\ days > 7 =>
                classified.color = "green" /\ classified.branch = "NONE"

\* C7 witness: due at 00:00 three calendar days after a now of 23:59 (two
\* days and one minute later) is Yellow.
C7_Witness ==
    /\ classified.status = "unpaid"
    /\ CalDay(classified.dueDate) - CalDay(classified.today) = 3
    /\ classified.dueDate % MinutesPerDay = 0
    /\ classified.today % MinutesPerDay = MinutesPerDay - 1
    /\ classified.color = "yellow" /\ classified.branch = "YELLOW"

\* C8: a paid bill classifies gray whatever its due date and the date.
C8_PaidIsGray ==
    classified.status = "paid" => classified.color = "gray"

\* C8 witness: a paid bill that is overdue is gray.
C8_Witness ==
    /\ classified.status = "paid"
    /\ classified.dueDate < classified.today
    /\ classified.color = "gray"

\* The Red email branch is entered exactly when the listed bill's
\* lastEmailRemindedAt is null or on another calendar day than now.
RedEmailDecision ==
    \A s \in SweepIds :
        (/\ Decides(s)
         /\ Urgency(CurrentBill(sweeps[s]).dueDate, sweeps[s].now) = "RED"
         /\ sweeps'[s].settings.isEmailEnabled
         /\ sweeps'[s].settings.userEmail # "")
        => (sweeps'[s].pc = "redEmail"
            <=> \/ CurrentBill(sweeps[s]).lastEmailRemindedAt = Null
                \/ CalDay(CurrentBill(sweeps[s]).lastEmailRemindedAt)
                     # CalDay(sweeps[s].now))

\* A sweep in the Red email branch sends one email for the bill and then
\* writes its now into lastEmailRemindedAt.
RedEmailEffect ==
    /\ \A s \in SweepIds :
          /\ sweeps[s].pc = "redEmail" =>
                InSweep("email", s, CurrentBill(sweeps[s]).id) = {}
          /\ sweeps[s].pc = "redWrite" =>
                /\ Cardinality(InSweep("email", s, CurrentBill(sweeps[s]).id)) = 1
                /\ InSweep("stampEmail", s, CurrentBill(sweeps[s]).id) = {}
    /\ \A w \in Of("stampEmail") :
          w.urgency = "RED" =>
              /\ w.val = w.now
              /\ Cardinality(InSweep("email", w.sweep, w.bill)) = 1
              /\ Cardinality(InSweep("stampEmail", w.sweep, w.bill)) = 1

\* C9: for a Red bill the sweep listed, with email enabled and an address
\* set, an email is sent exactly when the bill's lastEmailRemindedAt is null
\* or on another calendar day than now; then exactly one email is sent and
\* lastEmailRemindedAt is set to now.
C9_RedEmailDaily == []RedEmailEffect /\ [][RedEmailDecision]_vars

\* C9 witness: last email at 23:59 of day 0, sweep at 00:01 of day 1, one
\* email sent and lastEmailRemindedAt set to 00:01 of day 1.
C9_Witness ==
    \E w \in Of("stampEmail") :
        /\ w.urgency = "RED"
        /\ w.lastEmail = Day(1) - 1 /\ w.now = Day(1) + 1
        /\ w.val = Day(1) + 1
        /\ bills[w.bill].lastEmailRemindedAt = Day(1) + 1
        /\ Cardinality(InSweep("email", w.sweep, w.bill)) = 1

\* The sound check of a Red bill passes exactly when the listed bill's
\* lastRemindedAt is null or at least the bill's interval ago, the interval
\* being 120 for the values in none.  Checks made at least minElapsed minutes
\* after lastRemindedAt are covered.
SoundDecision(none, minElapsed) ==
    \A s \in SweepIds :
        LET bill == CurrentBill(sweeps[s])
            interval == IF bill.reminderSoundInterval \in none THEN 120
                        ELSE bill.reminderSoundInterval
        IN  (/\ ReachesSoundCheck(s)
             /\ \/ bill.lastRemindedAt = Null
                \/ sweeps[s].now - bill.lastRemindedAt >= minElapsed)
            => (sweeps'[s].pc = "sound"
                <=> \/ bill.lastRemindedAt = Null
                    \/ sweeps[s].now - bill.lastRemindedAt >= interval)

\* A sweep that passed the sound check writes lastRemindedAt, and what it
\* writes is not before its now nor before the value it replaces.
SoundEffect ==
    /\ \A s \in SweepIds :
          sweeps[s].pc = "sound" =>
              InSweep("stampSound", s, CurrentBill(sweeps[s]).id) = {}
    /\ \A w \in Of("stampSound") :
          /\ w.val >= w.now
          /\ w.stored # Null => w.val >= w.stored
          /\ Cardinality(InSweep("stampSound", w.sweep, w.bill)) = 1

\* C10 (as claimed): for a Red bill the sound alert is triggered, and
\* lastRemindedAt advanced, exactly when lastRemindedAt is null or the minutes
\* since it are >= the bill's interval, 120 when the bill has none.  Stated
\* for the sweeps that began a minute or more after the last sound reminder.
C10_SoundInterval_Original == []SoundEffect /\ [][SoundDecision({Null}, 1)]_vars

\* C10 (amended): the same, the interval being 120 when the bill has none or
\* has an interval of 0.
C10_SoundInterval == []SoundEffect /\ [][SoundDecision({Null, 0}, 0)]_vars

\* C10 witness: interval 120 by default, exactly 120 minutes since the last
\* sound reminder: triggered, and lastRemindedAt advanced.
C10_Witness ==
    \E w \in Of("stampSound") :
        /\ w.interval = Null
        /\ w.lastSound # Null /\ w.now - w.lastSound = 120
        /\ w.val >= w.now
        /\ bills[w.bill].lastRemindedAt >= w.now

\* The Yellow email branch is entered exactly when the listed bill's
\* lastEmailRemindedAt is null or at least 2 days (48 hours) before now.
YellowEmailDecision ==
    \A s \in SweepIds :
        (/\ Decides(s)
         /\ Urgency(CurrentBill(sweeps[s]).dueDate, sweeps[s].now) = "YELLOW"
         /\ sweeps'[s].settings.isEmailEnabled
         /\ sweeps'[s].settings.userEmail # "")
        => (sweeps'[s].pc = "yellowEmail"
            <=> \/ CurrentBill(sweeps[s]).lastEmailRemindedAt = Null
                \/ sweeps[s].now - CurrentBill(sweeps[s]).lastEmailRemindedAt
                     >= 2 * MinutesPerDay)

\* A sweep in the Yellow email branch sends one email for the bill and then
\* writes its now into lastEmailRemindedAt.
YellowEmailEffect ==
    /\ \A s \in SweepIds :
          /\ sweeps[s].pc = "yellowEmail" =>
                InSweep("email", s, CurrentBill(sweeps[s]).id) = {}
          /\ sweeps[s].pc = "yellowWrite" =>
                /\ Cardinality(InSweep("email", s, CurrentBill(sweeps[s]).id)) = 1
                /\ InSweep("stampEmail", s, CurrentBill(sweeps[s]).id) = {}
    /\ \A w \in Of("stampEmail") :
          w.urgency = "YELLOW" =>
              /\ w.val = w.now
              /\ Cardinality(InSweep("email", w.sweep, w.bill)) = 1
              /\ Cardinality(InSweep("stampEmail", w.sweep, w.bill)) = 1

\* C11: for a Yellow bill the sweep listed, with email enabled and an address
\* set, an email is sent exactly when the bill's lastEmailRemindedAt is null
\* or at least 2 days before now (not after 1 day, and after 2 days); on
\* sending, lastEmailRemindedAt is set to now.
C11_YellowEmailTwoDays == []YellowEmailEffect /\ [][YellowEmailDecision]_vars

\* C11 witness: last email at 00:01 of day 0, sweep at 00:01 of day 2: an
\* email is sent and lastEmailRemindedAt set to 00:01 of day 2.
C11_Witness ==
    \E w \in Of("stampEmail") :
        /\ w.urgency = "YELLOW"
        /\ w.lastEmail = 1 /\ w.now = Day(2) + 1
        /\ bills[w.bill].lastEmailRemindedAt = Day(2) + 1
        /\ Cardinality(InSweep("email", w.sweep, w.bill)) = 1

\* the chat channel as the settings record cfg has it
ChatReady(cfg) ==
    cfg.isTelegramEnabled /\ cfg.telegramToken # "" /\ cfg.telegramChatId # ""

\* Every Red chat message comes from a sweep that read a configured chat
\* channel and has sent the Red email for the bill before it.
RedChatOnlyWithEmail ==
    \A e \in Of("chat") :
        e.urgency = "RED" =>
            /\ ChatReady(e.cfg)
            /\ \E m \in InSweep("email", e.sweep, e.bill) : m.urgency = "RED"
            /\ Cardinality({c \in InSweep("chat", e.sweep, e.bill) :
                              c.urgency = "RED"}) = 1

\* After the Red email and its timestamp write the sweep sends the chat
\* message exactly when the chat channel is configured, and the chat send
\* leaves the bills table as it is.
RedChatAfterEmail ==
    \A s \in SweepIds :
        /\ (sweeps[s].pc = "redWrite" /\ sweeps'[s] # sweeps[s])
           => (sweeps'[s].pc = "redTelegram" <=> ChatReady(sweeps[s].settings))
        /\ (sweeps[s].pc = "redTelegram" /\ sweeps'[s] # sweeps[s])
           => bills' = bills

\* C12: a chat message is sent for a Red bill exactly when the Red email
\* fires for that bill in the same sweep and the chat channel is enabled with
\* token and chat id; the chat send writes no timestamp.
C12_RedChatPiggyback == []RedChatOnlyWithEmail /\ [][RedChatAfterEmail]_vars

\* C12 witness: a sweep has sent the Red email and the Red chat message for a
\* bill and is at its sound check; the only timestamp written is the email's.
C12_Witness ==
    \E s \in SweepIds :
        /\ sweeps[s].pc = "sound"
        /\ \E e \in InSweep("chat", s, CurrentBill(sweeps[s]).id) :
              e.urgency = "RED"
        /\ \E m \in InSweep("email", s, CurrentBill(sweeps[s]).id) :
              m.urgency = "RED"
        /\ bills[CurrentBill(sweeps[s]).id].lastEmailRemindedAt = sweeps[s].now
        /\ bills[CurrentBill(sweeps[s]).id].lastRemindedAt = Null

\* C13 (as claimed): a Red bill whose daily reminder is due, listed by a sweep
\* that reads settings with the chat channel configured and email disabled or
\* without an address, gets its chat message in that sweep.
C13_ChatNotBlockedByEmailConfig ==
    [][\A s \in SweepIds :
          (/\ Decides(s)
           /\ Urgency(CurrentBill(sweeps[s]).dueDate, sweeps[s].now) = "RED"
           /\ ChatReady(sweeps'[s].settings)
           /\ \/ ~sweeps'[s].settings.isEmailEnabled
              \/ sweeps'[s].settings.userEmail = ""
           /\ \/ CurrentBill(sweeps[s]).lastEmailRemindedAt = Null
              \/ CalDay(CurrentBill(sweeps[s]).lastEmailRemindedAt)
                   # CalDay(sweeps[s].now))
          => sweeps'[s].pc = "redTelegram"]_vars

\* C14 (as claimed): no sweep advances lastRemindedAt (fires the sound
\* channel) for a bill while the settings it read have isSoundEnabled off.
C14_SoundOffNeverFires ==
    \A e \in Of("stampSound") : isSoundEnabled(e.cfg)


\* An email attempt that fails is followed by the write of the sweep's now
\* into lastEmailRemindedAt, as one that succeeds is.
FailedEmailStillStamps ==
    \A s \in SweepIds :
        /\ (/\ sweeps[s].pc \in {"redEmail", "yellowEmail"}
            /\ sweeps'[s] # sweeps[s]
            /\ transport.mail # "ok")
           => /\ sweeps'[s].pc =
                   (IF sweeps[s].pc = "redEmail" THEN "redWrite" ELSE "yellowWrite")
              /\ \E e \in log' \ log :
                    e.kind = "email" /\ e.outcome # "sent"
        /\ (/\ sweeps[s].pc \in {"redWrite", "yellowWrite"}
            /\ sweeps'[s] # sweeps[s])
           => bills'[CurrentBill(sweeps[s]).id].lastEmailRemindedAt = sweeps[s].now

\* No sweep makes an email attempt for a bill within the cadence window of a
\* failed attempt of another sweep: not on the same calendar day (Red), not
\* within 2 days (Yellow).
NoRetryInWindow ==
    \A s \in SweepIds :
        (/\ sweeps[s].pc \in {"redEmail", "yellowEmail"}
         /\ sweeps'[s] # sweeps[s])
        => \A e \in Of("email") :
              (/\ e.bill = CurrentBill(sweeps[s]).id
               /\ e.sweep # s
               /\ e.outcome # "sent")
              => IF sweeps[s].pc = "redEmail"
                 THEN CalDay(sweeps[s].now) > CalDay(e.now)
                 ELSE sweeps[s].now - e.now >= 2 * MinutesPerDay

\* C15 (as claimed): a failed email attempt (provider error, exception, no
\* mail client) still sets lastEmailRemindedAt to now, and no further attempt
\* is made for the bill before the next cadence window.
C15_FailedEmailAdvances == [][FailedEmailStillStamps /\ NoRetryInWindow]_vars

\* No exception of a send leaves the callback.
NoSweepAborted == \A s \in SweepIds : sweeps[s].pc # "aborted"

\* After a send, failed or not, the sweep goes on with the bill: the email is
\* followed by its timestamp write, the Red chat message by the sound check,
\* the Yellow chat message by the next bill; and a sweep returns only after
\* the last bill it listed.
SweepGoesOn ==
    \A s \in SweepIds :
        LET sw == sweeps[s]
            bill == CurrentBill(sw)
            toNextBill == IF sw.idx < Len(sw.unpaid)
                          THEN /\ sweeps'[s].pc = "settings"
                               /\ sweeps'[s].idx = sw.idx + 1
                               /\ sweeps'[s].unpaid = sw.unpaid
                               /\ sweeps'[s].now = sw.now
                          ELSE sweeps'[s].pc = "done"
        IN  sweeps'[s] # sw =>
              /\ sw.pc = "redEmail" => sweeps'[s].pc = "redWrite"
              /\ sw.pc = "yellowEmail" => sweeps'[s].pc = "yellowWrite"
              /\ sw.pc = "redTelegram" =>
                    IF \/ bill.lastRemindedAt = Null
                       \/ sw.now - bill.lastRemindedAt >=
                            (IF bill.reminderSoundInterval \in {Null, 0} THEN 120
                             ELSE bill.reminderSoundInterval)
                    THEN sweeps'[s].pc = "sound" /\ sweeps'[s].idx = sw.idx
                    ELSE toNextBill
              /\ sw.pc \in {"yellowTelegram", "sound"} => toNextBill
              /\ (sw.pc \notin Returned /\ sweeps'[s].pc \in Returned)
                    => /\ sweeps'[s].pc = "done"
                       /\ sw.pc = "list" \/ sw.idx = Len(sw.unpaid)

\* Every sweep that has started returns normally: once the ticks are used up,
\* no callback stays in progress or aborted.
SweepRunsToEnd ==
    <>[](\A s \in SweepIds : sweeps[s].pc \in {"idle", "done"})

\* C16: a failure of an email or chat send for one bill never stops the
\* sweep: the remaining channels of the bill and the remaining bills are
\* still evaluated, and the sweep runs to its end.
C16_FailureDoesNotStopSweep ==
    []NoSweepAborted /\ [][SweepGoesOn]_vars /\ SweepRunsToEnd

\* C16 witness: with the mail side or the Telegram API failing, a sweep whose
\* Red email and Red chat message for bill 1 both failed has gone on to the
\* sound reminder of bill 1 and to the Yellow email of bill 2, and returned.
C16_Witness ==
    \E s \in SweepIds :
        /\ sweeps[s].pc = "done"
        /\ \E e \in InSweep("email", s, 1) : e.outcome # "sent"
        /\ \E e \in InSweep("chat", s, 1) : e.outcome # "sent"
        /\ InSweep("stampSound", s, 1) # {}
        /\ InSweep("email", s, 2) # {}
        /\ InSweep("stampEmail", s, 2) # {}
        /\ InSweep("chat", s, 2) # {}

\* C17: the settings table holds at most one row, whatever the interleaving
\* of getSettings and updateSettings calls made by the sweep and by the API.
C17_SettingsSingleRow == Len(settingsRows) <= 1

\* C18: every reminder timestamp written by a sweep equals the sweep's
\* reference instant now, the one its bills were classified with.
C18_TimestampsEqualNow ==
    \A e \in Of("stampEmail") \cup Of("stampSound") : e.val = e.now

\* the whole days from the sweep's day to the bill's due day
DaysAhead(dueDate, now) == CalDay(dueDate) - CalDay(now)

\* Nothing is ever sent or written for a bill more than 7 days ahead of the
\* sweep's now.
NothingLoggedForGreen ==
    \A e \in log : DaysAhead(bills[e.bill].dueDate, e.now) <= 7

\* A sweep that reaches a bill more than 7 days ahead leaves it at once: it
\* goes to the next bill or returns, and the bills and the log stay as they
\* were.
GreenBillSkipped ==
    \A s \in SweepIds :
        (/\ Decides(s)
         /\ DaysAhead(CurrentBill(sweeps[s]).dueDate, sweeps[s].now) > 7)
        => /\ log' = log
           /\ bills' = bills
           /\ \/ sweeps'[s].pc = "done"
              \/ sweeps'[s].pc = "settings" /\ sweeps'[s].idx = sweeps[s].idx + 1

\* C19: for an unpaid bill that a sweep classifies Green (diffDays > 7) the
\* sweep sends no email and no chat message, triggers no sound alert and
\* leaves both timestamps as they were.
C19_GreenBillUntouched == []NothingLoggedForGreen /\ [][GreenBillSkipped]_vars

\* C19 witness: a sweep that read settings with email and chat configured
\* has returned from an unpaid bill due 8 or more days ahead whose timestamps
\* were never set (so every reminder would be due), having logged nothing.
C19_Witness ==
    \E s \in SweepIds, id \in DOMAIN bills :
        /\ sweeps[s].pc = "done"
        /\ EmailConfigured(sweeps[s].settings)
        /\ TelegramConfigured(sweeps[s].settings)
        /\ bills[id].status = "unpaid"
        /\ DaysAhead(bills[id].dueDate, clock) > 7
        /\ bills[id].lastEmailRemindedAt = Null
        /\ bills[id].lastRemindedAt = Null
        /\ log = {}

\* the columns of a bill that no sweep writes
FrameOfBill(b) ==
    [status |-> b.status, dueDate |-> b.dueDate,
     reminderSoundInterval |-> b.reminderSoundInterval]

\* A step of sweep s keeps the set of bills and every column other than the
\* two timestamps, changes no bill but the one the sweep is at, and changes
\* of that bill only lastEmailRemindedAt (at an email's write) or only
\* lastRemindedAt (at the sound's write).
SweepWritesOnlyItsBill ==
    \A s \in SweepIds :
        (sweeps[s].pc \notin Returned /\ sweeps'[s] # sweeps[s]) =>
            /\ DOMAIN bills' = DOMAIN bills
            /\ \A id \in DOMAIN bills :
                 /\ FrameOfBill(bills'[id]) = FrameOfBill(bills[id])
                 /\ bills'[id] # bills[id] =>
                      /\ sweeps[s].pc \in {"redWrite", "yellowWrite", "sound"}
                      /\ id = CurrentBill(sweeps[s]).id
                      /\ sweeps[s].pc \in {"redWrite", "yellowWrite"} =>
                           bills'[id].lastRemindedAt = bills[id].lastRemindedAt
                      /\ sweeps[s].pc = "sound" =>
                           bills'[id].lastEmailRemindedAt =
                               bills[id].lastEmailRemindedAt

\* C20: a sweep never creates or deletes a bill and changes no bill field
\* other than lastEmailRemindedAt and lastRemindedAt; each timestamp write
\* changes only the bill it was decided for.
C20_SweepFrame == [][SweepWritesOnlyItsBill]_vars

\* C20 witness: one sweep has written both timestamps of the Red bill 1 and
\* the email timestamp of the Yellow bill 2; bill 2's lastRemindedAt is still
\* unset and both bills are still unpaid.
C20_Witness ==
    \E s \in SweepIds :
        /\ sweeps[s].pc = "done"
        /\ InSweep("stampEmail", s, 1) # {}
        /\ InSweep("stampSound", s, 1) # {}
        /\ InSweep("stampEmail", s, 2) # {}
        /\ bills[1].lastEmailRemindedAt # Null
        /\ bills[1].lastRemindedAt # Null
        /\ bills[2].lastEmailRemindedAt # Null
        /\ bills[2].lastRemindedAt = Null
        /\ bills[1].status = "unpaid" /\ bills[2].status = "unpaid"

\* ------------------------------------------------------- the bills API
\* What a JSON body can carry in a timestamp field: null, or a text (JSON has
\* no dates).
JsonDates == {"null", "text"}

\* insertBillSchema = createInsertSchema(bills).omit({ id, createdAt,
\* lastRemindedAt }) with dueDate coerced: keys not in the schema are
\* stripped (lastRemindedAt), lastEmailRemindedAt is still in it as a
\* nullable, optional date, which takes null and rejects a text.
insertBillSchema(body) ==
    IF "lastEmailRemindedAt" \in DOMAIN body /\ body.lastEmailRemindedAt = "text"
    THEN [ok |-> FALSE, data |-> <<>>]
    ELSE [ok |-> TRUE,
          data |-> [f \in DOMAIN body \ {"lastRemindedAt"} |->
                      IF f = "lastEmailRemindedAt" THEN Null ELSE body[f]]]

\* bodies of PUT /api/bills/:id
PutBillBodies ==
    {[status |-> "paid"],
     [status |-> "unpaid"],
     [status |-> "unpaid", lastRemindedAt |-> "null"],
     [status |-> "unpaid", lastEmailRemindedAt |-> "null"],
     [status |-> "unpaid", lastEmailRemindedAt |-> "text"]}

\* PUT /api/bills/:id: parse the body (400 on a ZodError), storage.updateBill.
PutBill(id, body) ==
    /\ ticks + requests < EventBudget
    /\ requests' = requests + 1
    /\ bills' = IF insertBillSchema(body).ok
                THEN [bills EXCEPT ![id] = Merge(@, insertBillSchema(body).data)]
                ELSE bills
    /\ UNCHANGED <<clock, settingsRows, sweeps, ticks, log, classified,
                   transport, putSettings,
                   testReply,
                   audio,
                   projection>>

\* bodies of POST /api/bills
PostBillBodies ==
    {[dueDate |-> Day(2) + 600],
     [dueDate |-> Day(2) + 600, lastRemindedAt |-> "text"],
     [dueDate |-> Day(2) + 600, lastEmailRemindedAt |-> "null"],
     [dueDate |-> Day(2) + 600, lastEmailRemindedAt |-> "text"]}

\* POST /api/bills: parse the body (400 on a ZodError), storage.createBill;
\* the columns not given take their defaults.
PostBill(body) ==
    /\ ticks + requests < EventBudget
    /\ requests' = requests + 1
    /\ LET id == Cardinality(DOMAIN bills) + 1
       IN  bills' = IF insertBillSchema(body).ok
                    THEN [i \in DOMAIN bills \cup {id} |->
                            IF i = id
                            THEN Merge(NewBill("unpaid", 0, DefaultSoundInterval),
                                       insertBillSchema(body).data)
                            ELSE bills[i]]
                    ELSE bills
    /\ UNCHANGED <<clock, settingsRows, sweeps, ticks, log, classified,
                   transport, putSettings,
                   testReply,
                   audio,
                   projection>>

\* One unpaid bill, Red or Yellow on days 0..2, the settings table empty or
\* with both channels configured, and the bills API of the server.
InitBillApi ==
    /\ clock = 0
    /\ \E due \in {Day(2) + 600, Day(5) + 30} :
          bills = [id \in BillIds |-> NewBill("unpaid", due, Null)]
    /\ settingsRows \in
          {<<>>,
           <<[DefaultSettings EXCEPT !.userEmail = "user@example.com",
                                     !.isTelegramEnabled = TRUE,
                                     !.telegramToken = "token",
                                     !.telegramChatId = "chat"]>>}
    /\ sweeps = [s \in SweepIds |-> IdleSweep]
    /\ ticks = 0
    /\ requests = 0
    /\ log = {}
    /\ classified = NotClassified
    /\ transport = [mail |-> "ok", chat |-> "ok"]
    /\ putSettings = <<>>
    /\ testReply = NoReply
    /\ audio = NoAudio
    /\ projection = NotProjected

NextBillApi ==
    \/ Next
    \/ \E id \in DOMAIN bills, body \in PutBillBodies : PutBill(id, body)
    \/ \E body \in PostBillBodies : PostBill(body)

SpecBillApi == InitBillApi /\ [][NextBillApi]_vars

\* this step is a timestamp write of a sweep for bill id
SweepWrites(id) ==
    \E s \in SweepIds :
        /\ sweeps[s].pc \in {"redWrite", "yellowWrite", "sound"}
        /\ sweeps'[s] # sweeps[s]
        /\ CurrentBill(sweeps[s]).id = id

\* C21 (as claimed): a bill's lastEmailRemindedAt and lastRemindedAt change
\* only in a timestamp write of a sweep for that bill; no create or update
\* request of the API sets, changes or clears either field.
C21_TimestampsOnlyBySweep ==
    [][\A id \in DOMAIN bills' :
          IF id \in DOMAIN bills
          THEN (\/ bills'[id].lastEmailRemindedAt # bills[id].lastEmailRemindedAt
                \/ bills'[id].lastRemindedAt # bills[id].lastRemindedAt)
               => SweepWrites(id)
          ELSE /\ bills'[id].lastEmailRemindedAt = Null
               /\ bills'[id].lastRemindedAt = Null]_vars

\* ------------------------------------------------- the manual test routes
\* storage.getSettings as one call: the first row, a default row being
\* inserted when the table is empty.
RowsAfterGetSettings(rows) == IF rows = <<>> THEN <<DefaultSettings>> ELSE rows

\* if (!settings.isEmailEnabled || !settings.userEmail) return 400
\* (faulty variant: the enablement flag not consulted)
MutTestEmailRejectedNoFlag(s) == s.userEmail = ""
testEmailRejected(s) == ~s.isEmailEnabled \/ s.userEmail = ""

\* if (!settings.isTelegramEnabled || !settings.telegramToken ||
\*     !settings.telegramChatId) return 400
testTelegramRejected(s) ==
    ~s.isTelegramEnabled \/ s.telegramToken = "" \/ s.telegramChatId = ""

\* POST /api/settings/test-email
TestEmail ==
    /\ ticks + requests < EventBudget
    /\ requests' = requests + 1
    /\ settingsRows' = RowsAfterGetSettings(settingsRows)
    /\ LET s == RowsAfterGetSettings(settingsRows)[1]
       IN  testReply' =
             IF testEmailRejected(s)
             THEN [route |-> "test-email", status |-> 400, outcome |-> "none",
                   cfg |-> s]
             ELSE [route |-> "test-email", status |-> 200,
                   outcome |-> sendReminderEmail(transport.mail), cfg |-> s]
    /\ UNCHANGED <<clock, bills, sweeps, ticks, log, classified, transport,
                   putSettings,
                   audio,
                   projection>>

\* POST /api/settings/test-telegram
TestTelegram ==
    /\ ticks + requests < EventBudget
    /\ requests' = requests + 1
    /\ settingsRows' = RowsAfterGetSettings(settingsRows)
    /\ LET s == RowsAfterGetSettings(settingsRows)[1]
       IN  testReply' =
             IF testTelegramRejected(s)
             THEN [route |-> "test-telegram", status |-> 400, outcome |-> "none",
                   cfg |-> s]
             ELSE [route |-> "test-telegram", status |-> 200,
                   outcome |-> sendTelegramMessage(transport.chat), cfg |-> s]
    /\ UNCHANGED <<clock, bills, sweeps, ticks, log, classified, transport,
                   putSettings,
                   audio,
                   projection>>

\* One unpaid bill, Red or Yellow on days 0..2; the four settings tables of
\* Init; a mail side and a Telegram API that both work, both answer with an
\* error, or both throw.
InitTestSends ==
    /\ clock = 0
    /\ \E due \in {Day(2) + 600, Day(5) + 30} :
          bills = [id \in BillIds |-> NewBill("unpaid", due, Null)]
    /\ settingsRows \in InitSettingsRows
    /\ sweeps = [s \in SweepIds |-> IdleSweep]
    /\ ticks = 0
    /\ requests = 0
    /\ log = {}
    /\ classified = NotClassified
    /\ transport \in {[mail |-> "ok", chat |-> "ok"],
                      [mail |-> "error", chat |-> "notOk"],
                      [mail |-> "throw", chat |-> "throw"]}
    /\ putSettings = <<>>
    /\ testReply = NoReply
    /\ audio = NoAudio
    /\ projection = NotProjected

\* the timer, the sweeps and the two test routes
NextTestSends ==
    \/ \E t \in TickInstants : Tick(t)
    \/ \E s \in SweepIds : SweepStep(s)
    \/ TestEmail
    \/ TestTelegram

SpecTestSends == InitTestSends /\ [][NextTestSends]_vars

\* C22 (as claimed): when the provider rejects or fails the send made by a
\* manual test operation, the answer to the caller reports a failure.
C22_TestFailureSurfaced ==
    testReply.outcome \in {"error", "caught"} => testReply.status >= 400

\* the settings row a test request works with
TestSettings == RowsAfterGetSettings(settingsRows)[1]

\* A test request attempts its send exactly when the channel's flag is on
\* and its credentials are present, and answers 400 otherwise; it leaves the
\* bills and the record of the sweeps' sends and writes as they were.
TestSendGate ==
    /\ TestEmail =>
          /\ testReply'.outcome # "none"
                <=> (TestSettings.isEmailEnabled /\ TestSettings.userEmail # "")
          /\ testReply'.outcome = "none" <=> testReply'.status = 400
          /\ bills' = bills /\ log' = log
    /\ TestTelegram =>
          /\ testReply'.outcome # "none"
                <=> /\ TestSettings.isTelegramEnabled
                    /\ TestSettings.telegramToken # ""
                    /\ TestSettings.telegramChatId # ""
          /\ testReply'.outcome = "none" <=> testReply'.status = 400
          /\ bills' = bills /\ log' = log

\* C23: a manual test send applies the enablement and credential checks of
\* the sweep and no cadence gate: it attempts a send exactly when the
\* channel is enabled with its credentials, whatever the bills' timestamps,
\* and changes no bill's lastEmailRemindedAt or lastRemindedAt.
C23_TestSendUngated == [][TestSendGate]_vars

\* C23 witness: a test email was attempted on the day on which a sweep had
\* already sent the Red email for the bill and written both timestamps (so
\* a sweep would not send again), and the timestamps are as the sweep left
\* them.
C23_Witness ==
    /\ testReply.route = "test-email"
    /\ testReply.outcome # "none"
    /\ \E e \in Of("stampEmail"), w \in Of("stampSound") :
          /\ e.bill = w.bill
          /\ CalDay(e.val) = CalDay(clock)
          /\ bills[e.bill].lastEmailRemindedAt = e.val
          /\ bills[e.bill].lastRemindedAt = w.val

\* C24 (as claimed): no step of a sweep inserts or modifies anything in the
\* settings table, also when the table has no row yet.
C24_SweepReadsSettingsOnly ==
    [][(\E s \in SweepIds : SweepStep(s)) => settingsRows' = settingsRows]_vars

\* the tier of an unpaid bill due on dueDate, seen from the instant t
TierAt(dueDate, t) ==
    IF CalDay(dueDate) - CalDay(t) <= 2 THEN "red"
    ELSE IF CalDay(dueDate) - CalDay(t) <= 7 THEN "yellow"
    ELSE "green"

\* C25 (as claimed): the classification of a bill is determined by the bill
\* and the supplied reference instant: the tier is the one computed from the
\* reference instant, not from another reading of the clock.
C25_TierFromReferenceInstant ==
    classified.status = "unpaid" =>
        classified.color = TierAt(classified.dueDate, classified.referenceDate)

\* C29: for an unpaid bill and an instant now, the sweep enters its Red
\* branch exactly when getBillStatusColor gives red, its Yellow branch
\* exactly when it gives yellow, and neither exactly when it gives green.
C29_SweepAgreesWithClassifier ==
    classified.status = "unpaid" =>
        /\ classified.branch = "RED" <=> classified.color = "red"
        /\ classified.branch = "YELLOW" <=> classified.color = "yellow"
        /\ classified.branch = "NONE" <=> classified.color = "green"
        /\ classified.color # "gray"

\* C29 witness: a bill due at 00:00 eight calendar days after a now of 23:59
\* (seven days and one minute later) is green for the client and enters no
\* branch of the sweep.
C29_Witness ==
    /\ classified.status = "unpaid"
    /\ CalDay(classified.dueDate) - CalDay(classified.today) = 8
    /\ classified.dueDate % MinutesPerDay = 0
    /\ classified.today % MinutesPerDay = MinutesPerDay - 1
    /\ classified.color = "green" /\ classified.branch = "NONE"

\* --------------------------------------------------- the client's alert
\* settings?.isMuted and settings?.alertSoundUrl as the client reads them
\* from the row the server returns: undefined when the row has no such field.
isMuted(row) == IF "isMuted" \in DOMAIN row THEN row.isMuted ELSE FALSE
alertSoundUrl(row) ==
    IF "alertSoundUrl" \in DOMAIN row THEN row.alertSoundUrl ELSE ""

\* bills.filter(b => getBillStatusColor(b) === 'red'), at the clock reading t
redBills(table, t) ==
    {id \in DOMAIN table : getBillStatusColor(table[id], t, t) = "red"}

\* the dependency list of the effect: [bills, settings?.isSoundEnabled,
\* settings?.isMuted, settings?.alertSoundUrl]
EffectDeps(table, row) ==
    <<table, isSoundEnabled(row), isMuted(row), alertSoundUrl(row)>>

\* CalendarView renders with the bills and the settings row just fetched.
\* When a dependency has changed (or on mount) the cleanup of the last
\* effect stops its audio and the effect runs again: it starts one looping
\* audio if a bill is red, the sound is enabled and not muted and a sound
\* URL is set.  Otherwise nothing runs and the audio stays as it is.
Rendered(a, table, row, t) ==
    IF a.mounted /\ a.deps = EffectDeps(table, row) THEN a
    ELSE [a EXCEPT !.mounted = TRUE,
                   !.deps = EffectDeps(table, row),
                   !.playing = IF /\ redBills(table, t) # {}
                                  /\ isSoundEnabled(row)
                                  /\ ~isMuted(row)
                                  /\ alertSoundUrl(row) # ""
                               THEN 1 ELSE 0]

\* The page is opened or refetches its queries (GET /api/bills and GET
\* /api/settings, which inserts the default row into an empty table).
ClientRender ==
    /\ ticks + requests < EventBudget
    /\ requests' = requests + 1
    /\ settingsRows' = RowsAfterGetSettings(settingsRows)
    /\ audio' = Rendered(audio, bills, RowsAfterGetSettings(settingsRows)[1], clock)
    /\ UNCHANGED <<clock, bills, sweeps, ticks, log, classified, transport,
                   putSettings, testReply,
                   projection>>

\* what the sound card of the Settings page saves
SoundUpdates ==
    {[isSoundEnabled |-> TRUE], [isSoundEnabled |-> FALSE],
     [isMuted |-> TRUE], [isMuted |-> FALSE],
     [alertSoundUrl |-> "data:audio/mpeg;base64"]}

\* Settings page (the calendar is not on this page: its effect has been
\* cleaned up): mutation.mutate(updates) -> PUT /api/settings ->
\* storage.updateSettings(updates), which writes the columns the settings
\* table has.
ClientSaveSound(updates) ==
    /\ ticks + requests < EventBudget
    /\ putSettings = <<>>
    /\ requests' = requests + 1
    /\ LET rows == RowsAfterGetSettings(settingsRows)
           after == [rows EXCEPT ![1] = Merge(@, updates)]
       IN  /\ settingsRows' = after
           /\ audio' = [NoAudio EXCEPT !.wanted = Merge(audio.wanted, updates)]
    /\ UNCHANGED <<clock, bills, sweeps, ticks, log, classified, transport,
                   putSettings, testReply,
                   projection>>

\* The user marks a bill paid: PUT /api/bills/:id, the bills query is
\* invalidated and the page renders.
ClientPayBill(id) ==
    /\ ticks + requests < EventBudget
    /\ requests' = requests + 1
    /\ bills' = [bills EXCEPT ![id] = Merge(@, [status |-> "paid"])]
    /\ settingsRows' = RowsAfterGetSettings(settingsRows)
    /\ audio' = Rendered(audio, bills', RowsAfterGetSettings(settingsRows)[1], clock)
    /\ UNCHANGED <<clock, sweeps, ticks, log, classified, transport,
                   putSettings, testReply,
                   projection>>

\* One unpaid bill, Red from the start or from day 1 on; the settings table
\* empty or with both channels configured; the user has saved nothing on the
\* sound card yet, or has switched the sound on and uploaded a sound.
InitClient ==
    /\ clock = 0
    /\ \E due \in {Day(2) + 600, Day(3) + 600} :
          bills = [id \in BillIds |-> NewBill("unpaid", due, Null)]
    /\ settingsRows \in
          {<<>>,
           <<[DefaultSettings EXCEPT !.userEmail = "user@example.com",
                                     !.isTelegramEnabled = TRUE,
                                     !.telegramToken = "token",
                                     !.telegramChatId = "chat"]>>}
    /\ sweeps = [s \in SweepIds |-> IdleSweep]
    /\ ticks = 0
    /\ requests = 0
    /\ log = {}
    /\ classified = NotClassified
    /\ transport = [mail |-> "ok", chat |-> "ok"]
    /\ putSettings = <<>>
    /\ testReply = NoReply
    /\ audio \in {NoAudio,
                  [NoAudio EXCEPT !.wanted =
                      [isSoundEnabled |-> TRUE, isMuted |-> FALSE,
                       alertSoundUrl |-> "data:audio/mpeg;base64"]]}
    /\ projection = NotProjected

\* the timer, the sweeps and the browser
NextClient ==
    \/ \E t \in TickInstants : Tick(t)
    \/ \E s \in SweepIds : SweepStep(s)
    \/ ClientRender
    \/ \E u \in SoundUpdates : ClientSaveSound(u)
    \/ \E id \in DOMAIN bills : ClientPayBill(id)

SpecClient == InitClient /\ [][NextClient]_vars

\* C26 (as claimed): on the open page the alert sound loops while a bill
\* classifies Red and the user has the sound enabled, unmuted and
\* configured; no alert audio plays when the sound is muted, disabled or
\* not configured or no bill is Red; at most one alert audio plays.
C26_AlertLoopsWhileRed ==
    /\ audio.playing <= 1
    /\ audio.mounted =>
          (audio.playing = 1
             <=> /\ redBills(bills, clock) # {}
                 /\ audio.wanted.isSoundEnabled
                 /\ ~audio.wanted.isMuted
                 /\ audio.wanted.alertSoundUrl # "")

\* ---------------------------------------------------- a malformed bill
\* Two unpaid bills: bill 1 with a due date that is no instant (a row
\* written to the database from outside the API, whose schema coerces and
\* checks dueDate), bill 2 Red or Yellow; the settings table empty or with
\* both channels configured.
InitMalformed ==
    /\ clock = 0
    /\ \E due \in {Day(2) + 600, Day(5) + 30} :
          bills = [id \in TwoBillIds |->
                     IF id = 1 THEN NewBill("unpaid", InvalidDate, Null)
                     ELSE NewBill("unpaid", due, Null)]
    /\ settingsRows \in
          {<<>>,
           <<[DefaultSettings EXCEPT !.userEmail = "user@example.com",
                                     !.isTelegramEnabled = TRUE,
                                     !.telegramToken = "token",
                                     !.telegramChatId = "chat"]>>}
    /\ sweeps = [s \in SweepIds |-> IdleSweep]
    /\ ticks = 0
    /\ requests = 0
    /\ log = {}
    /\ classified = NotClassified
    /\ transport = [mail |-> "ok", chat |-> "ok"]
    /\ putSettings = <<>>
    /\ testReply = NoReply
    /\ audio = NoAudio
    /\ projection = NotProjected

SpecMalformed == InitMalformed /\ [][Next]_vars

\* the bills whose due date cannot be read as an instant
Malformed == {id \in DOMAIN bills : bills[id].dueDate = InvalidDate}

\* Nothing is sent and no timestamp is written for a malformed bill, and no
\* sweep is aborted.
MalformedUntouched ==
    /\ \A e \in log : e.bill \notin Malformed
    /\ \A id \in Malformed :
          bills[id].lastEmailRemindedAt = Null /\ bills[id].lastRemindedAt = Null
    /\ \A s \in SweepIds : sweeps[s].pc # "aborted"

\* A sweep that reaches a malformed bill goes on to the next bill it listed,
\* and returns only from the last one.
MalformedSkipped ==
    \A s \in SweepIds :
        /\ (Decides(s) /\ CurrentBill(sweeps[s]).id \in Malformed) =>
              IF sweeps[s].idx < Len(sweeps[s].unpaid)
              THEN /\ sweeps'[s].pc = "settings"
                   /\ sweeps'[s].idx = sweeps[s].idx + 1
                   /\ sweeps'[s].unpaid = sweeps[s].unpaid
              ELSE sweeps'[s].pc = "done"
        /\ (sweeps[s].pc \notin Returned /\ sweeps'[s].pc \in Returned) =>
              sweeps[s].pc = "list" \/ sweeps[s].idx = Len(sweeps[s].unpaid)

\* C27: a malformed bill does not abort the sweep: a bill whose due date
\* cannot be parsed is skipped (nothing sent, no timestamp written for it)
\* and every other unpaid bill of the sweep is still evaluated.
C27_MalformedBillSkipped == []MalformedUntouched /\ [][MalformedSkipped]_vars

\* C27 witness: a sweep that listed the malformed bill 1 before bill 2 has
\* sent the email for bill 2 and written its timestamp, and has returned;
\* bill 1 is still unpaid and untouched.
C27_Witness ==
    \E s \in SweepIds :
        /\ sweeps[s].pc = "done"
        /\ 1 \in Malformed /\ bills[1].status = "unpaid"
        /\ InSweep("email", s, 2) # {}
        /\ InSweep("stampEmail", s, 2) # {}
        /\ bills[2].lastEmailRemindedAt # Null
        /\ bills[1].lastEmailRemindedAt = Null /\ bills[1].lastRemindedAt = Null

\* ------------------------------------------- the recurring-bill projector
\* Calendar dates of the projector: month m counted from January of the
\* first year, day d of the month (no leap year).
MaxMonth == 15     \* the calendar cells shown fall in months 0..MaxMonth

MonthLen(m) ==
    IF m % 12 = 1 THEN 28
    ELSE IF m % 12 \in {3, 5, 8, 10} THEN 30
    ELSE 31

\* date-fns addMonths: the same day of the target month, or its last day
addMonths(dt, n) ==
    [m |-> dt.m + n,
     d |-> IF dt.d <= MonthLen(dt.m + n) THEN dt.d ELSE MonthLen(dt.m + n)]
addYears(dt, n) == addMonths(dt, 12 * n)

isSameDate(a, b) == a.m = b.m /\ a.d = b.d
DateAfter(a, b) == a.m > b.m \/ (a.m = b.m /\ a.d > b.d)

\* the values of bills.recurring_interval: those the form offers, NULL and
\* any other text
RecurringIntervals ==
    {"monthly", "3-months", "6-months", "yearly", "2-years", "custom",
     "(null)", "weekly"}

\* The if / else if chain of the loop body: the next occurrence, or break.
\* CalendarView knows five intervals, Dashboard two.
\* (faulty variant: no break for an interval the chain does not know)
MutAdvanceNoBreak(view, interval, next) ==
    IF interval = "monthly" THEN [brk |-> FALSE, next |-> addMonths(next, 1)]
    ELSE IF interval = "yearly" THEN [brk |-> FALSE, next |-> addYears(next, 1)]
    ELSE IF view = "calendar" /\ interval = "3-months"
    THEN [brk |-> FALSE, next |-> addMonths(next, 3)]
    ELSE IF view = "calendar" /\ interval = "6-months"
    THEN [brk |-> FALSE, next |-> addMonths(next, 6)]
    ELSE IF view = "calendar" /\ interval = "2-years"
    THEN [brk |-> FALSE, next |-> addYears(next, 2)]
    ELSE [brk |-> FALSE, next |-> next]
Advance(view, interval, next) ==
    IF interval = "monthly" THEN [brk |-> FALSE, next |-> addMonths(next, 1)]
    ELSE IF interval = "yearly" THEN [brk |-> FALSE, next |-> addYears(next, 1)]
    ELSE IF view = "calendar" /\ interval = "3-months"
    THEN [brk |-> FALSE, next |-> addMonths(next, 3)]
    ELSE IF view = "calendar" /\ interval = "6-months"
    THEN [brk |-> FALSE, next |-> addMonths(next, 6)]
    ELSE IF view = "calendar" /\ interval = "2-years"
    THEN [brk |-> FALSE, next |-> addYears(next, 2)]
    ELSE [brk |-> TRUE, next |-> next]

ProbeDays == {1, 28, 31}
DatesIn(months) ==
    {[m |-> m, d |-> d] : m \in months, d \in ProbeDays} \cap
    {[m |-> m, d |-> d] : m \in months, d \in 1..31}
ValidDates(months) == {dt \in DatesIn(months) : dt.d <= MonthLen(dt.m)}

\* The callback of bills.flatMap for one bill and one date (a calendar cell
\* or the selected date), up to the loop: the bill on its stored due date,
\* a bill that does not recur, or the loop entered with nextDate = dueDate
\* and limitDate = addYears(new Date(), 1).
ProjectStart(view, recurring, interval, due, date, today) ==
    /\ projection.pc = "idle"
    /\ projection' =
          [pc |-> IF isSameDate(due, date) \/ ~recurring THEN "done" ELSE "loop",
           view |-> view, recurring |-> recurring, interval |-> interval,
           due |-> due, date |-> date,
           next |-> due, limit |-> addYears(today, 1), iters |-> 0,
           found |-> IF isSameDate(due, date) THEN "stored" ELSE "none"]
    /\ UNCHANGED <<clock, bills, settingsRows, sweeps, ticks, requests, log,
                   classified, transport, putSettings, testReply, audio>>

\* One test of the while condition and, if it holds, one run of the body.
ProjectStep ==
    /\ projection.pc = "loop"
    /\ LET p == projection
           a == Advance(p.view, p.interval, p.next)
       IN  projection' =
             IF DateAfter(p.next, p.limit) \/ a.brk
             THEN [p EXCEPT !.pc = "done"]
             ELSE IF isSameDate(a.next, p.date)
             THEN [p EXCEPT !.pc = "done", !.next = a.next, !.found = "projected",
                            !.iters = @ + 1]
             ELSE IF DateAfter(a.next, p.date)
             THEN [p EXCEPT !.pc = "done", !.next = a.next, !.iters = @ + 1]
             ELSE [p EXCEPT !.next = a.next, !.iters = @ + 1]
    /\ UNCHANGED <<clock, bills, settingsRows, sweeps, ticks, requests, log,
                   classified, transport, putSettings, testReply, audio>>

NextProject ==
    \/ /\ projection.pc = "idle"
       /\ \E view \in {"calendar", "dashboard"}, recurring \in BOOLEAN,
             interval \in RecurringIntervals, due \in ValidDates(0..3),
             date \in ValidDates(0..MaxMonth), today \in ValidDates({2}) :
               ProjectStart(view, recurring, interval, due, date, today)
    \/ ProjectStep

\* The projector reads no table: it starts from an empty database.
InitProject ==
    /\ clock = 0
    /\ bills = [id \in BillIds |-> NewBill("paid", Day(2) + 600, Null)]
    /\ settingsRows = <<>>
    /\ sweeps = [s \in SweepIds |-> IdleSweep]
    /\ ticks = 0
    /\ requests = 0
    /\ log = {}
    /\ classified = NotClassified
    /\ transport = [mail |-> "ok", chat |-> "ok"]
    /\ putSettings = <<>>
    /\ testReply = NoReply
    /\ audio = NoAudio
    /\ projection = NotProjected

\* The loop is synchronous code: once entered it keeps running.
SpecProject == InitProject /\ [][NextProject]_vars /\ WF_vars(ProjectStep)

\* A projection that has entered its loop leaves it.
ProjectorTerminates == (projection.pc = "loop") ~> (projection.pc = "done")

\* The loop body runs at most once per month from the due date to the
\* earlier of the date asked for and the limit, and once more.
ProjectorBounded ==
    projection.iters <= projection.limit.m - projection.due.m + 2

\* For the interval custom nothing is projected: the bill is shown on its
\* stored due date and on no other date.
CustomNotProjected ==
    (projection.pc = "done" /\ projection.interval = "custom") =>
        /\ projection.found # "projected"
        /\ projection.found = "stored" <=> isSameDate(projection.due, projection.date)
        /\ projection.iters = 0

\* C28: the recurring-bill projector terminates for every recurring bill,
\* every recurringInterval value and every calendar date; for the custom
\* interval it yields no projected occurrence.
C28_ProjectorTerminates ==
    ProjectorTerminates /\ []ProjectorBounded /\ []CustomNotProjected

\* C28 witness: the loop was entered for a recurring bill with the custom
\* interval and a date after its due date, and ended with nothing projected.
C28_Witness ==
    /\ projection.pc = "done"
    /\ projection.interval = "custom"
    /\ projection.recurring
    /\ DateAfter(projection.date, projection.due)
    /\ projection.next = projection.due
    /\ projection.found = "none"

\* A sweep that returns after a Red bill for which it read settings with
\* email enabled and an address leaves an email attempt for that bill by a
\* sweep whose now is on the same calendar day as its own.
RedEmailEveryDay ==
    \A s \in SweepIds :
        (/\ sweeps[s].pc \notin Returned \cup {"list"}
         /\ sweeps'[s].pc = "done"
         /\ Urgency(CurrentBill(sweeps[s]).dueDate, sweeps[s].now) = "RED"
         /\ sweeps'[s].settings.isEmailEnabled
         /\ sweeps'[s].settings.userEmail # "")
        => \E e \in {x \in log' : x.kind = "email"} :
              /\ e.bill = CurrentBill(sweeps[s]).id
              /\ e.urgency = "RED"
              /\ CalDay(e.now) = CalDay(sweeps[s].now)

\* C30: reminders are not starved: while a bill is unpaid and Red and email
\* is enabled with an address, an email attempt is made for the bill on
\* every calendar day on which a sweep completes.
C30_RedEmailNotStarved == [][RedEmailEveryDay]_vars

\* C30 witness: sweeps of two calendar days have returned and each day has
\* its Red email attempt for the bill; the second sweep found the first
\* day's timestamp stored.
C30_Witness ==
    \E e1, e2 \in Of("email") :
        /\ e1.bill = e2.bill
        /\ e1.urgency = "RED" /\ e2.urgency = "RED"
        /\ CalDay(e1.now) < CalDay(e2.now)
        /\ e2.lastEmail = e1.now
        /\ sweeps[e1.sweep].pc = "done" /\ sweeps[e2.sweep].pc = "done"

====
